---- MODULE Spec2Model ----
(***************************************************************************)
(* FastChart (src/main.py): render_chart = aggregate + gen_*_svg.          *)
(*                                                                         *)
(* A render call is a pure function of (chart, data).  The state machine   *)
(* starts with one request (chart, data) drawn from bounded sets and one   *)
(* action per chart type runs render_chart on it: aggregate(), then the    *)
(* SVG generator of that type.                                             *)
(*                                                                         *)
(* Python values are tagged records, Python floats are exact rationals     *)
(* [num, den] (rounding of IEEE doubles is not modelled), a dict is the    *)
(* sequence of its entries in insertion order, and an SVG string is the    *)
(* sequence of its elements.  An element keeps the values its f-string     *)
(* formats, before the rounding to two decimals of ":.2f"; a pie <path>    *)
(* keeps the angles start and end (in turns) rather than the points        *)
(* 100 + 100*cos/sin(2*pi*angle) printed from them, so a wedge of a full   *)
(* turn, whose two printed points coincide, is still told from an empty    *)
(* one.  chart.label_field and chart.field name the two fields a record    *)
(* of the model has; chart.title plays no part in the geometry.  The       *)
(* branch for an unsupported chart.type cannot be reached: pydantic        *)
(* rejects such a ChartDefinition.                                         *)
(***************************************************************************)
EXTENDS Integers, Sequences, FiniteSets, TLC

VARIABLES
    data,     \* render_chart's data: the request's list of records
    chart,    \* render_chart's chart: type, calculation, colors
    buckets,  \* aggregate's buckets: key -> list of values, in insertion order
    agg,      \* aggregate's result: key -> value, in insertion order
    colors,   \* chart.colors or DEFAULT_COLORS
    svg,      \* the elements of the svg the generator returned
    err,      \* "none", or the exception that ended the call
    pc        \* "start" before the call of render_chart, "done" after it

vars == <<data, chart, buckets, agg, colors, svg, err, pc>>

\* Longest request data list explored.
MaxRecs == 3

(***************************************************************************)
(* Python values                                                           *)
(***************************************************************************)
\* A str is the sequence of its characters, so that float() can parse it.
PyStr(chars) == [type |-> "str", s |-> chars, n |-> 0]
PyInt(k) == [type |-> "int", s |-> <<>>, n |-> k]
PyNone == [type |-> "NoneType", s |-> <<>>, n |-> 0]
\* A key that the dict does not hold (only ever seen through Get).
Absent == [type |-> "absent", s |-> <<>>, n |-> 0]

\* bool(v) for the values above: "", 0 and None are falsy.
Truthy(v) ==
    CASE v.type = "str" -> v.s # <<>>
      [] v.type = "int" -> v.n # 0
      [] OTHER -> FALSE

\* dict.get(key, default) on one field of a record.
Get(field, default) == IF field.type = "absent" THEN default ELSE field

(***************************************************************************)
(* Exact arithmetic standing for float                                     *)
(***************************************************************************)
Abs(x) == IF x < 0 THEN -x ELSE x

RECURSIVE GCD(_, _)
GCD(a, b) == IF b = 0 THEN a ELSE GCD(b, a % b)

\* n/d in lowest terms with a positive denominator (d # 0).
Rat(n, d) ==
    LET g == GCD(Abs(n), Abs(d))
        sgn == IF d < 0 THEN -1 ELSE 1
    IN [num |-> sgn * (n \div g), den |-> sgn * (d \div g)]

Zero == Rat(0, 1)
One == Rat(1, 1)
Half == Rat(1, 2)
RAdd(a, b) == Rat(a.num * b.den + b.num * a.den, a.den * b.den)
RSub(a, b) == Rat(a.num * b.den - b.num * a.den, a.den * b.den)
RMul(a, b) == Rat(a.num * b.num, a.den * b.den)
RDiv(a, b) == Rat(a.num * b.den, a.den * b.num)
RLt(a, b) == a.num * b.den < b.num * a.den
RLe(a, b) == a.num * b.den <= b.num * a.den

RECURSIVE RSum(_)
RSum(vals) == IF vals = <<>> THEN Zero ELSE RAdd(vals[1], RSum(Tail(vals)))

RECURSIVE RMin(_)
RMin(vals) ==
    IF Len(vals) = 1 THEN vals[1]
    ELSE LET m == RMin(Tail(vals)) IN IF RLt(m, vals[1]) THEN m ELSE vals[1]

RECURSIVE RMax(_)
RMax(vals) ==
    IF Len(vals) = 1 THEN vals[1]
    ELSE LET m == RMax(Tail(vals)) IN IF RLt(vals[1], m) THEN m ELSE vals[1]

(***************************************************************************)
(* float(raw)                                                              *)
(***************************************************************************)
Digits == {"0", "1", "2", "3", "4", "5", "6", "7", "8", "9"}

DigitVal(c) ==
    CASE c = "0" -> 0 [] c = "1" -> 1 [] c = "2" -> 2 [] c = "3" -> 3
      [] c = "4" -> 4 [] c = "5" -> 5 [] c = "6" -> 6 [] c = "7" -> 7
      [] c = "8" -> 8 [] c = "9" -> 9

RECURSIVE Pow10(_)
Pow10(k) == IF k = 0 THEN 1 ELSE 10 * Pow10(k - 1)

\* Value of a digit string read as a decimal integer ("" reads as 0).
RECURSIVE DecVal(_)
DecVal(ds) ==
    IF ds = <<>> THEN 0
    ELSE 10 * DecVal(SubSeq(ds, 1, Len(ds) - 1)) + DigitVal(ds[Len(ds)])

\* float(str): [sign] digits [. digits], at least one digit.  Returns
\* [ok, val].  Exponents, surrounding blanks, underscores and the words
\* inf/nan are outside the strings explored.
ParseFloat(chars) ==
    LET signed == chars # <<>> /\ chars[1] \in {"-", "+"}
        body == IF signed THEN Tail(chars) ELSE chars
        dots == {i \in 1..Len(body) : body[i] = "."}
        dot == IF dots = {} THEN Len(body) + 1
               ELSE CHOOSE i \in dots : \A j \in dots : i <= j
        ip == SubSeq(body, 1, dot - 1)
        fp == SubSeq(body, dot + 1, Len(body))
        wellformed == /\ Len(ip) + Len(fp) > 0
                      /\ \A i \in 1..Len(ip) : ip[i] \in Digits
                      /\ \A i \in 1..Len(fp) : fp[i] \in Digits
        mag == Rat(DecVal(ip) * Pow10(Len(fp)) + DecVal(fp), Pow10(Len(fp)))
    IN IF ~wellformed THEN [ok |-> FALSE, val |-> Zero]
       ELSE [ok |-> TRUE,
             val |-> IF signed /\ chars[1] = "-" THEN RSub(Zero, mag) ELSE mag]

\* Variant: a value that does not parse counts as 1.
CoerceFailOne(raw) ==
    CASE raw.type = "int" -> Rat(raw.n, 1)
      [] raw.type = "str" ->
           LET p == ParseFloat(raw.s) IN IF p.ok THEN p.val ELSE One
      [] OTHER -> One

\* try: val = float(raw)  except: val = 0.0
Coerce(raw) ==
    CASE raw.type = "int" -> Rat(raw.n, 1)
      [] raw.type = "str" ->
           LET p == ParseFloat(raw.s) IN IF p.ok THEN p.val ELSE Zero
      [] OTHER -> Zero

(***************************************************************************)
(* aggregate(data, chart)                                                  *)
(***************************************************************************)
Unknown == PyStr(<<"U", "n", "k", "n", "o", "w", "n">>)

\* key = item.get(chart.label_field) or "Unknown"
GroupKey(item) ==
    LET v == Get(item.label, PyNone) IN IF Truthy(v) THEN v ELSE Unknown

\* raw = item.get(chart.field, 0)
RawValue(item) == Get(item.raw, PyInt(0))

KeysOf(d) == [i \in 1..Len(d) |-> d[i].k]

\* Variant: buckets[key] = [val], forgetting what the key held.
SetOverwrite(bks, key, val) ==
    IF \E i \in 1..Len(bks) : bks[i].k = key
    THEN [i \in 1..Len(bks) |->
            IF bks[i].k = key THEN [k |-> key, vals |-> <<val>>] ELSE bks[i]]
    ELSE Append(bks, [k |-> key, vals |-> <<val>>])

\* Variant: a key seen again moves to the end of the dict.
SetMoveToEnd(bks, key, val) ==
    IF \E i \in 1..Len(bks) : bks[i].k = key
    THEN LET at == CHOOSE i \in 1..Len(bks) : bks[i].k = key
         IN SubSeq(bks, 1, at - 1) \o SubSeq(bks, at + 1, Len(bks))
            \o <<[k |-> key, vals |-> Append(bks[at].vals, val)]>>
    ELSE Append(bks, [k |-> key, vals |-> <<val>>])

\* buckets.setdefault(key, []).append(val): a new key goes last, an old one
\* keeps its place.
SetDefaultAppend(bks, key, val) ==
    IF \E i \in 1..Len(bks) : bks[i].k = key
    THEN [i \in 1..Len(bks) |->
            IF bks[i].k = key
            THEN [k |-> key, vals |-> Append(bks[i].vals, val)]
            ELSE bks[i]]
    ELSE Append(bks, [k |-> key, vals |-> <<val>>])

\* The first loop of aggregate, over the items in order.
RECURSIVE Buckets(_)
Buckets(items) ==
    IF items = <<>> THEN <<>>
    ELSE LET n == Len(items)
             item == items[n]
         IN SetDefaultAppend(Buckets(SubSeq(items, 1, n - 1)),
                             GroupKey(item), Coerce(RawValue(item)))

\* The if/elif chain of the second loop, for one bucket.
Reduce(calculation, vals) ==
    CASE calculation = "count" -> Rat(Len(vals), 1)
      [] calculation = "sum" -> RSum(vals)
      [] calculation = "average" ->
           IF vals # <<>> THEN RDiv(RSum(vals), Rat(Len(vals), 1)) ELSE Zero
      [] calculation = "min" -> IF vals # <<>> THEN RMin(vals) ELSE Zero
      [] calculation = "max" -> IF vals # <<>> THEN RMax(vals) ELSE Zero

\* result[k] = ... for k, vals in buckets.items()
Result(bks, calculation) ==
    [i \in 1..Len(bks) |-> [k |-> bks[i].k, v |-> Reduce(calculation, bks[i].vals)]]

(***************************************************************************)
(* SVG generators                                                          *)
(***************************************************************************)
DEFAULT_COLORS == <<"#4CAF50", "#FF9800", "#2196F3", "#F44336", "#9C27B0">>

Values(d) == [i \in 1..Len(d) |-> d[i].v]

\* x or 1
OrOne(x) == IF x = Zero THEN One ELSE x

\* Variant: no cycling, every entry takes the first color.
ColorAtFirst(cols, idx) == cols[1]

\* colors[idx % len(colors)], idx counted from 0
ColorAt(cols, idx) == cols[(idx % Len(cols)) + 1]

\* format(x, ".0f"): the nearest integer, a tie going to the even one (as an
\* integer: the sign Python prints on a negative value rounded to 0 is lost).
Fmt0(x) ==
    LET fl == x.num \div x.den
        twice == Rat(2 * (x.num - fl * x.den), x.den)
    IN IF RLt(twice, One) THEN fl
       ELSE IF RLt(One, twice) THEN fl + 1
       ELSE IF fl % 2 = 0 THEN fl ELSE fl + 1

\* ---- gen_pie_svg ----
\* total = sum(agg.values()) or 1
PieTotal(d) == OrOne(RSum(Values(d)))

\* large = 1 if frac >= .5 else 0
PieLarge(frac) == IF RLe(Half, frac) THEN 1 ELSE 0

\* Variant: the running angle is not carried forward.
PieEndNoCarry(start, frac) == frac

\* end = start + frac
PieEnd(start, frac) == RAdd(start, frac)

\* The loop of gen_pie_svg from entry idx+1 on, the running angle being
\* start.  A path is kept by the two angles (in turns) whose cos and sin
\* give its end points, its large-arc flag and its fill.
RECURSIVE PieParts(_, _, _, _, _)
PieParts(d, total, cols, idx, start) ==
    IF idx >= Len(d) THEN <<>>
    ELSE LET frac == RDiv(d[idx + 1].v, total)
             end == PieEnd(start, frac)
         IN <<[tag |-> "path", start |-> start, end |-> end,
               large |-> PieLarge(frac), fill |-> ColorAt(cols, idx)]>>
            \o PieParts(d, total, cols, idx + 1, end)

gen_pie_svg(d, cols) ==
    [err |-> "none", parts |-> PieParts(d, PieTotal(d), cols, 0, Zero)]

\* ---- gen_bar_svg ----
\* Variant: maxv = max(max(agg.values()), 1)
MaxVAtLeastOne(d) == IF RLt(RMax(Values(d)), One) THEN One ELSE RMax(Values(d))

\* maxv = max(agg.values()) or 1, for a non-empty agg
MaxV(d) == OrOne(RMax(Values(d)))

\* w = (val/maxv)*200
BarWidth(val, maxv) == RMul(RDiv(val, maxv), Rat(200, 1))

RECURSIVE BarParts(_, _, _, _)
BarParts(d, maxv, cols, idx) ==
    IF idx >= Len(d) THEN <<>>
    ELSE LET w == BarWidth(d[idx + 1].v, maxv)
             y == 30 * idx
         IN <<[tag |-> "rect", x |-> Zero, y |-> Rat(y, 1), width |-> w,
               height |-> Rat(20, 1), fill |-> ColorAt(cols, idx)],
              [tag |-> "text", x |-> RAdd(w, Rat(5, 1)), y |-> Rat(y + 15, 1),
               label |-> d[idx + 1].k, val |-> Fmt0(d[idx + 1].v)]>>
            \o BarParts(d, maxv, cols, idx + 1)

\* max() of an empty sequence raises ValueError before anything is drawn.
gen_bar_svg(d, cols) ==
    IF d = <<>> THEN [err |-> "ValueError", parts |-> <<>>]
    ELSE [err |-> "none", parts |-> BarParts(d, MaxV(d), cols, 0)]

\* ---- gen_column_svg ----
\* h = (val/maxv)*150
ColumnHeight(val, maxv) == RMul(RDiv(val, maxv), Rat(150, 1))

RECURSIVE ColumnParts(_, _, _, _)
ColumnParts(d, maxv, cols, idx) ==
    IF idx >= Len(d) THEN <<>>
    ELSE LET h == ColumnHeight(d[idx + 1].v, maxv)
             x == 50 * idx
         IN <<[tag |-> "rect", x |-> Rat(x, 1), y |-> RSub(Rat(150, 1), h),
               width |-> Rat(30, 1), height |-> h, fill |-> ColorAt(cols, idx)],
              [tag |-> "text", x |-> Rat(x + 15, 1), y |-> Rat(170, 1),
               label |-> d[idx + 1].k]>>
            \o ColumnParts(d, maxv, cols, idx + 1)

gen_column_svg(d, cols) ==
    IF d = <<>> THEN [err |-> "ValueError", parts |-> <<>>]
    ELSE [err |-> "none", parts |-> ColumnParts(d, MaxV(d), cols, 0)]

\* ---- gen_line_svg ----
\* x = 200 * idx/(n-1 if n>1 else 1)
LineX(idx, n) == Rat(200 * idx, IF n > 1 THEN n - 1 ELSE 1)

\* y = 150 - (val/maxv)*150
LineY(val, maxv) == RSub(Rat(150, 1), RMul(RDiv(val, maxv), Rat(150, 1)))

\* pts, one (x, y) per entry
LinePts(d, maxv) ==
    [i \in 1..Len(d) |-> [x |-> LineX(i - 1, Len(d)), y |-> LineY(d[i].v, maxv)]]

\* for i in range(len(pts)-1): one <line> from pts[i] to pts[i+1]
LineSegments(pts, cols) ==
    [i \in 1..(IF pts = <<>> THEN 0 ELSE Len(pts) - 1) |->
       [tag |-> "line", x1 |-> pts[i].x, y1 |-> pts[i].y,
        x2 |-> pts[i + 1].x, y2 |-> pts[i + 1].y, stroke |-> cols[1]]]

\* for x,y in pts: one <circle>
LineCircles(pts, cols) ==
    [i \in 1..Len(pts) |->
       [tag |-> "circle", cx |-> pts[i].x, cy |-> pts[i].y, r |-> Rat(4, 1),
        fill |-> cols[1]]]

\* the x labels
LineTexts(d) ==
    [i \in 1..Len(d) |->
       [tag |-> "text", x |-> LineX(i - 1, Len(d)), y |-> Rat(190, 1),
        label |-> d[i].k]]

gen_line_svg(d, cols) ==
    IF d = <<>> THEN [err |-> "ValueError", parts |-> <<>>]
    ELSE LET pts == LinePts(d, MaxV(d))
         IN [err |-> "none",
             parts |-> LineSegments(pts, cols) \o LineCircles(pts, cols)
                       \o LineTexts(d)]

(***************************************************************************)
(* render_chart(chart, data)                                               *)
(***************************************************************************)
\* colors = chart.colors or DEFAULT_COLORS (None and [] are falsy)
EffectiveColors(c) == IF c.given /\ c.list # <<>> THEN c.list ELSE DEFAULT_COLORS

(***************************************************************************)
(* Requests explored                                                       *)
(***************************************************************************)
Rec(label, raw) == [label |-> label, raw |-> raw]

\* Rows of the request data: the label field ("city") and the value field
\* ("amt") of each, either of which may be absent.
Records ==
    { Rec(PyStr(<<"A">>), PyStr(<<"1", "0">>)),
      Rec(PyStr(<<"B">>), PyStr(<<"b", "a", "d">>)),
      Rec(PyStr(<<"A">>), PyStr(<<"5">>)),
      Rec(PyStr(<<"B">>), PyStr(<<"-", "5">>)),
      Rec(PyStr(<<>>), PyStr(<<"5">>)),
      Rec(PyInt(0), PyStr(<<"2", ".", "5">>)),
      Rec(PyNone, PyInt(3)),
      Rec(Absent, Absent) }

DataLists == UNION {[1..n -> Records] : n \in 0..MaxRecs}

\* ChartDefinition.type and .calculation are Literal-validated.
ChartTypes == {"pie", "bar", "column", "line"}
Calculations == {"count", "sum", "average", "min", "max"}

\* ChartDefinition.colors: Optional[List[str]]
Palettes ==
    { [given |-> FALSE, list |-> <<>>],
      [given |-> TRUE, list |-> <<"red">>],
      [given |-> TRUE, list |-> <<"red", "blue">>] }

Charts == [type : ChartTypes, calculation : Calculations, colors : Palettes]

Init ==
    /\ data \in DataLists
    /\ chart \in Charts
    /\ buckets = <<>>
    /\ agg = <<>>
    /\ colors = <<>>
    /\ svg = <<>>
    /\ err = "none"
    /\ pc = "start"

\* agg = aggregate(data, chart); colors = chart.colors or DEFAULT_COLORS
Aggregated ==
    /\ buckets' = Buckets(data)
    /\ agg' = Result(buckets', chart.calculation)
    /\ colors' = EffectiveColors(chart.colors)

\* The generator's outcome: the elements it drew, or the exception it raised
\* (render_chart does not catch it).
Returned(out) ==
    /\ svg' = out.parts
    /\ err' = out.err
    /\ pc' = "done"
    /\ UNCHANGED <<data, chart>>

\* render_chart, one action per branch of its dispatch on chart.type.
RenderPie ==
    /\ pc = "start"
    /\ chart.type = "pie"
    /\ Aggregated
    /\ Returned(gen_pie_svg(agg', colors'))

RenderBar ==
    /\ pc = "start"
    /\ chart.type = "bar"
    /\ Aggregated
    /\ Returned(gen_bar_svg(agg', colors'))

RenderColumn ==
    /\ pc = "start"
    /\ chart.type = "column"
    /\ Aggregated
    /\ Returned(gen_column_svg(agg', colors'))

RenderLine ==
    /\ pc = "start"
    /\ chart.type = "line"
    /\ Aggregated
    /\ Returned(gen_line_svg(agg', colors'))

Next == RenderPie \/ RenderBar \/ RenderColumn \/ RenderLine

Spec == Init /\ [][Next]_vars

(***************************************************************************)
(* Properties of aggregate                                                 *)
(***************************************************************************)
Done == pc = "done"

\* The rows of data that went to the group of key k.
RowsOf(k) == {i \in 1..Len(data) : GroupKey(data[i]) = k}

\* C3: under calculation=count, for non-empty data, the values of the
\* aggregation sum to the number of records, each group's value being the
\* number of records of that group (every record is in exactly one group).
C3_CountSumsToRecords ==
    (Done /\ chart.calculation = "count" /\ data # <<>>) =>
        /\ RSum(Values(agg)) = Rat(Len(data), 1)
        /\ \A j \in 1..Len(agg) : agg[j].v = Rat(Cardinality(RowsOf(agg[j].k)), 1)
        /\ \A i \in 1..Len(data) :
             Cardinality({j \in 1..Len(agg) : agg[j].k = GroupKey(data[i])}) = 1

C3_Witness ==
    /\ Done /\ chart.calculation = "count"
    /\ Len(data) = 3 /\ Len(agg) = 2
    /\ \E i \in 1..3 : ~ParseFloat(RawValue(data[i]).s).ok

\* C4: the labels of the aggregation are pairwise distinct, are exactly the
\* grouping keys of the records, and stand in the order of their first
\* occurrence in data, for every calculation.
FirstRow(k) == CHOOSE i \in RowsOf(k) : \A j \in RowsOf(k) : i <= j

C4_FirstOccurrenceOrder ==
    Done =>
        /\ \A i, j \in 1..Len(agg) : i # j => agg[i].k # agg[j].k
        /\ {agg[j].k : j \in 1..Len(agg)} = {GroupKey(data[i]) : i \in 1..Len(data)}
        /\ \A i, j \in 1..Len(agg) : i < j => FirstRow(agg[i].k) < FirstRow(agg[j].k)

C4_Witness ==
    /\ Done /\ Len(data) = 3 /\ Len(agg) = 2
    /\ GroupKey(data[1]) = GroupKey(data[3])
    /\ agg[1].k = GroupKey(data[1])
    /\ chart.calculation = "max"

\* C5: a record's grouping key is the value of its label field whenever the
\* field is present and not None ("" and 0 included), and "Unknown" only when
\* it is missing or None.
ClaimedKey(item) ==
    IF item.label.type \in {"absent", "NoneType"} THEN Unknown ELSE item.label

C5_KeyIsLabelUnlessNull ==
    Done =>
        {agg[j].k : j \in 1..Len(agg)} = {ClaimedKey(data[i]) : i \in 1..Len(data)}

\* C6: for sum, average, min and max a record whose value field is missing or
\* non-numeric contributes 0 and is not dropped: each group reduces over as
\* many values as it has records, the value such a record contributes is 0,
\* and (A,"10"),(B,"bad"),(A,"5") under sum give [(A,15),(B,0)].
NumericChars == Digits \cup {"-", "+", "."}

NonNumeric(raw) ==
    \/ raw.type \in {"absent", "NoneType"}
    \/ raw.type = "str" /\ \E i \in 1..Len(raw.s) : raw.s[i] \notin NumericChars

\* The place of row i among the rows of its group.
PlaceInGroup(i) ==
    Cardinality({h \in 1..i : GroupKey(data[h]) = GroupKey(data[i])})

BucketOf(k) == CHOOSE j \in 1..Len(buckets) : buckets[j].k = k

ExampleData ==
    << Rec(PyStr(<<"A">>), PyStr(<<"1", "0">>)),
       Rec(PyStr(<<"B">>), PyStr(<<"b", "a", "d">>)),
       Rec(PyStr(<<"A">>), PyStr(<<"5">>)) >>

C6_BadValueCountsAsZero ==
    (Done /\ chart.calculation \in {"sum", "average", "min", "max"}) =>
        /\ \A j \in 1..Len(buckets) :
             Len(buckets[j].vals) = Cardinality(RowsOf(buckets[j].k))
        /\ \A i \in 1..Len(data) :
             NonNumeric(data[i].raw) =>
                 buckets[BucketOf(GroupKey(data[i]))].vals[PlaceInGroup(i)] = Zero
        /\ (data = ExampleData /\ chart.calculation = "sum") =>
                 agg = << [k |-> PyStr(<<"A">>), v |-> Rat(15, 1)],
                          [k |-> PyStr(<<"B">>), v |-> Zero] >>

C6_Witness ==
    /\ Done /\ chart.calculation = "sum" /\ data = ExampleData
    /\ Len(agg) = 2

(***************************************************************************)
(* Properties of the generators                                            *)
(***************************************************************************)
Tagged(tags) == SelectSeq(svg, LAMBDA e : e.tag \in tags)

Paths == Tagged({"path"})
Rects == Tagged({"rect"})
Lines == Tagged({"line"})
Circles == Tagged({"circle"})

\* C1: for empty data every chart type renders without an error and draws no
\* path, rect, line or circle.
C1_EmptyDataDrawsNothing ==
    (Done /\ data = <<>>) =>
        /\ err = "none"
        /\ Tagged({"path", "rect", "line", "circle"}) = <<>>

\* C2 as claimed: for every chart type the shape drawn for the label at
\* position i (from 0) has the color palette[i mod len(palette)].
Cycled(i) == colors[((i - 1) % Len(colors)) + 1]

Shapes == Tagged({"path", "rect", "circle"})

OneShape ==
    /\ err = "none"
    /\ chart.type = "pie" => Len(Paths) = 1
    /\ chart.type \in {"bar", "column"} => Len(Rects) = 1
    /\ chart.type = "line" => Len(Circles) = 1 /\ Lines = <<>>

FullExtent ==
    /\ chart.type = "pie" => Paths[1].start = Zero /\ Paths[1].end = One
    /\ chart.type = "bar" => Rects[1].width = Rat(200, 1)
    /\ chart.type = "column" => Rects[1].height = Rat(150, 1)

NoExtent ==
    /\ chart.type = "pie" => Paths[1].start = Zero /\ Paths[1].end = Zero
    /\ chart.type = "bar" => Rects[1].width = Zero
    /\ chart.type = "column" => Rects[1].height = Zero

C7_SingleLabelFullAnyValue ==
    (Done /\ Len(agg) = 1) => OneShape /\ FullExtent

\* C7 as amended: with exactly one label each type draws one shape (line: one
\* circle, no segment); the wedge is the full circle and the rect has the full
\* reference extent when the label's value is not 0, and both have extent 0
\* when it is 0.
C7_SingleLabelFullUnlessZero ==
    (Done /\ Len(agg) = 1) =>
        /\ OneShape
        /\ agg[1].v # Zero => FullExtent
        /\ agg[1].v = Zero => NoExtent

C7_Witness ==
    /\ Done /\ Len(agg) = 1 /\ Len(data) = 2
    /\ chart.type = "bar" /\ chart.calculation = "sum"
    /\ RLt(agg[1].v, Zero)
    /\ Rects[1].width = Rat(200, 1)

\* C8 as claimed: the wedges are contiguous from angle 0 in aggregation order,
\* each spanning value/total of the circle and the last ending at the full
\* circle when the total is positive; when the total is 0 every wedge has
\* zero span.
Total == RSum(Values(agg))

Span(i) == RSub(Paths[i].end, Paths[i].start)

Contiguous ==
    /\ Len(Paths) = Len(agg)
    /\ Paths[1].start = Zero
    /\ \A i \in 2..Len(Paths) : Paths[i].start = Paths[i - 1].end

C8_WedgesZeroWhenTotalZero ==
    (Done /\ chart.type = "pie" /\ agg # <<>>) =>
        /\ RLt(Zero, Total) =>
             /\ Contiguous
             /\ \A i \in 1..Len(agg) : Span(i) = RDiv(agg[i].v, Total)
             /\ Paths[Len(Paths)].end = One
        /\ Total = Zero => \A i \in 1..Len(Paths) : Span(i) = Zero

\* C8 as amended: the wedges are contiguous from angle 0 in aggregation order;
\* with a positive total each spans value/total and the last ends at the full
\* circle; with total 0 the total is taken as 1, so each wedge spans its own
\* value (zero span exactly for the labels of value 0).
C8_WedgesContiguous ==
    (Done /\ chart.type = "pie" /\ agg # <<>>) =>
        /\ Contiguous
        /\ RLt(Zero, Total) =>
             /\ \A i \in 1..Len(agg) : Span(i) = RDiv(agg[i].v, Total)
             /\ Paths[Len(Paths)].end = One
        /\ Total = Zero => \A i \in 1..Len(agg) : Span(i) = agg[i].v

C8_Witness ==
    /\ Done /\ chart.type = "pie" /\ Len(agg) = 3
    /\ RLt(Zero, Total)
    /\ \A i \in 1..3 : RLt(Zero, Span(i))
    /\ Paths[3].end = One

\* C9: a wedge's large-arc flag is 1 exactly when its span is more than half
\* the circle; a wedge of exactly half the circle has flag 0.
C9_LargeArcIffOverHalf ==
    (Done /\ chart.type = "pie") =>
        \A i \in 1..Len(Paths) : (Paths[i].large = 1) <=> RLt(Half, Span(i))

\* C10: a line chart of n labels puts the point of label index at x =
\* 200*index/(n-1) when n > 1 and at x = 100 when n = 1, and joins consecutive
\* points by n-1 segments in label order.
C10_LineXMidpointWhenSingle ==
    (Done /\ chart.type = "line" /\ err = "none") =>
        LET n == Len(agg) IN
        /\ Len(Circles) = n
        /\ n > 1 => \A i \in 1..n : Circles[i].cx = Rat(200 * (i - 1), n - 1)
        /\ n = 1 => Circles[1].cx = Rat(100, 1)
        /\ Len(Lines) = n - 1
        /\ \A i \in 1..(n - 1) :
             /\ Lines[i].x1 = Circles[i].cx /\ Lines[i].y1 = Circles[i].cy
             /\ Lines[i].x2 = Circles[i + 1].cx /\ Lines[i].y2 = Circles[i + 1].cy

====
